---- MODULE Spec2Model ----
(***************************************************************************)
(* Model of anomalib's two resolver helpers:                               *)
(*   - anomalib.loggers.get_experiment_logger  (loggers/__init__.py)       *)
(*   - anomalib.data.utils.transforms.get_transforms (transforms.py)       *)
(* Python values are tagged records; strings that the code builds by       *)
(* joining words (paths, f-strings) are sequences of their parts.          *)
(***************************************************************************)
EXTENDS Integers, Sequences, FiniteSets, TLC

VARIABLES
    configs,    \* the caller's configuration objects, by object identity
    prev,       \* per configuration object: how the latest call on it ended
    last,       \* record of the latest get_experiment_logger call
    dirs,       \* directories that exist on the file system
    targs,      \* arguments of the get_transforms call
    tpc,        \* "idle" | "ready" | "done": position of the get_transforms call
    tresult     \* outcome of the get_transforms call

vars == <<configs, prev, last, dirs, targs, tpc, tresult>>

\* ------------------------------------------------------------------ bounds
\* longest trainer.logger sequence drawn
MaxLoggers == 2
\* largest image / crop side drawn
MaxSize == 2
\* most keys of a structured transform config
MaxKeys == 2

\* ------------------------------------------------- generic sequence helpers
SeqsUpTo(S, n) == UNION {[1..k -> S] : k \in 0..n}

Last(s) == s[Len(s)]

IsInjective(s) == \A i, j \in 1..Len(s) : s[i] = s[j] => i = j

\* ======================================================= loggers/__init__.py
AVAILABLE_LOGGERS == <<"tensorboard", "wandb", "csv", "comet">>

\* logger names a configuration may carry: the supported ones and a stranger
LoggerNames == {"tensorboard", "wandb", "csv", "comet", "mlflow"}

ConfigIds == {1, 2}

\* Python values of trainer.logger
PyNone == [tag |-> "None"]
PyFalse == [tag |-> "bool", b |-> FALSE]
PyTrue == [tag |-> "bool", b |-> TRUE]
PyStr(s) == [tag |-> "str", s |-> s]
PyList(l) == [tag |-> "list", l |-> l]
PyInt(n) == [tag |-> "int", n |-> n]

LoggerValues ==
    {PyNone, PyFalse, PyTrue}
        \cup {PyStr(s) : s \in LoggerNames}
        \cup {PyList(l) : l \in SeqsUpTo(LoggerNames, MaxLoggers)}

\* trainer section: a mapping that always has max_epochs and may have logger
TrainerWith(v) == [k \in {"logger", "max_epochs"} |->
                      IF k = "logger" THEN v ELSE PyInt(1)]
TrainerWithout == [k \in {"max_epochs"} |-> PyInt(1)]

\* data.init_args: a mapping that may have category
InitArgs(hasCategory) ==
    IF hasCategory
    THEN [k \in {"category", "root"} |-> IF k = "category" THEN "bottle" ELSE "datasets"]
    ELSE [k \in {"root"} |-> "datasets"]

MakeConfig(trainer, hasCategory) ==
    [trainer |-> trainer,
     project |-> [path |-> <<"results">>],
     data    |-> [class_path |-> <<"anomalib", "data", "MVTec">>,
                  init_args  |-> InitArgs(hasCategory)],
     model   |-> [class_path |-> <<"anomalib", "models", "Padim">>,
                  name       |-> "padim"]]

ConfigSpace ==
    {MakeConfig(t, c) :
        t \in {TrainerWithout} \cup {TrainerWith(v) : v \in LoggerValues},
        c \in BOOLEAN}

\* Path(config.project.path) / "logs"
LogDir(config) == Append(config.project.path, "logs")

\* variant of line 86 that tests only for an absent key and None
LoggerDisabledMissesFalse(config) ==
    \/ "logger" \notin DOMAIN config.trainer
    \/ config.trainer["logger"] = PyNone

\* line 86: "logger" not in config.trainer or config.trainer.logger in (None, False)
LoggerDisabled(config) ==
    \/ "logger" \notin DOMAIN config.trainer
    \/ config.trainer["logger"] = PyNone
    \/ config.trainer["logger"] = PyFalse

\* lines 90-91: a string is rewritten in place to a one-element list
NormalizeLogger(config) ==
    IF config.trainer["logger"].tag = "str"
    THEN [config EXCEPT !.trainer["logger"] = PyList(<<config.trainer["logger"].s>>)]
    ELSE config

\* lines 96-102
TensorBoardAdapter(config) ==
    [kind      |-> "AnomalibTensorBoardLogger",
     name      |-> <<"Tensorboard", "Logs">>,
     save_dir  |-> LogDir(config),
     log_graph |-> FALSE]

\* lines 107-111
WandbName(config) ==
    IF "category" \notin DOMAIN config.data.init_args
    THEN <<Last(config.model.class_path)>>
    ELSE <<config.data.init_args["category"], Last(config.model.class_path)>>

\* lines 113-117
WandbAdapter(config) ==
    [kind     |-> "AnomalibWandbLogger",
     project  |-> Last(config.data.class_path),
     name     |-> WandbName(config),
     save_dir |-> LogDir(config)]

\* lines 122-126
CometRunName(config) ==
    IF "category" \notin DOMAIN config.data.init_args
    THEN <<config.model.name>>
    ELSE <<config.data.init_args["category"], Last(config.model.class_path)>>

\* lines 128-132
CometAdapter(config) ==
    [kind            |-> "AnomalibCometLogger",
     project_name    |-> Last(config.data.class_path),
     experiment_name |-> CometRunName(config),
     save_dir        |-> LogDir(config)]

\* line 135
CSVAdapter(config) ==
    [kind |-> "CSVLogger", save_dir |-> LogDir(config)]

\* lines 137-144
UnknownLoggerMsg(config) ==
    [unknown   |-> config.trainer["logger"].l,
     available |-> AVAILABLE_LOGGERS]

NoMsg == [none |-> TRUE]

\* state of the loop of lines 93-144
LoopStart ==
    [logger_list |-> <<>>, constructed |-> <<>>, mkdirs |-> <<>>,
     raised |-> FALSE, msg |-> NoMsg]

\* variant of append that inserts at the front of logger_list
AppendedInFront(st, adapter) ==
    [st EXCEPT !.logger_list = <<adapter>> \o @,
               !.constructed = Append(@, adapter.kind)]

\* one adapter constructed and appended (logger_list.append(Adapter(...)))
Appended(st, adapter) ==
    [st EXCEPT !.logger_list = Append(@, adapter),
               !.constructed = Append(@, adapter.kind)]

\* Path(logdir).mkdir(parents=True, exist_ok=True)
Mkdir(st, dir) == [st EXCEPT !.mkdirs = Append(@, dir)]

\* the else branch, lines 136-144
RaiseUnknown(config, st) ==
    [st EXCEPT !.raised = TRUE, !.msg = UnknownLoggerMsg(config)]

\* variant of the loop body whose else branch skips the unknown name
LoopBodyIgnoresUnknown(config, experiment_logger, st) ==
    IF experiment_logger = "tensorboard"
    THEN Appended(st, TensorBoardAdapter(config))
    ELSE IF experiment_logger = "wandb"
    THEN Appended(Mkdir(st, LogDir(config)), WandbAdapter(config))
    ELSE IF experiment_logger = "comet"
    THEN Appended(Mkdir(st, LogDir(config)), CometAdapter(config))
    ELSE IF experiment_logger = "csv"
    THEN Appended(st, CSVAdapter(config))
    ELSE st

\* one iteration of the loop body, lines 94-144
LoopBody(config, experiment_logger, st) ==
    IF experiment_logger = "tensorboard"
    THEN Appended(st, TensorBoardAdapter(config))
    ELSE IF experiment_logger = "wandb"
    THEN Appended(Mkdir(st, LogDir(config)), WandbAdapter(config))
    ELSE IF experiment_logger = "comet"
    THEN Appended(Mkdir(st, LogDir(config)), CometAdapter(config))
    ELSE IF experiment_logger = "csv"
    THEN Appended(st, CSVAdapter(config))
    ELSE RaiseUnknown(config, st)

\* variant of the loop that records the error and goes on to the later names
RECURSIVE LoggerLoopNoStop(_, _, _)
LoggerLoopNoStop(config, i, st) ==
    IF i > Len(config.trainer["logger"].l)
    THEN st
    ELSE LoggerLoopNoStop(config, i + 1,
                          LoopBody(config, config.trainer["logger"].l[i], st))

\* for experiment_logger in config.trainer.logger, from position i on
RECURSIVE LoggerLoop(_, _, _)
LoggerLoop(config, i, st) ==
    IF st.raised \/ i > Len(config.trainer["logger"].l)
    THEN st
    ELSE LoggerLoop(config, i + 1,
                    LoopBody(config, config.trainer["logger"].l[i], st))

\* variant of line 148 that deletes nothing
DelLoggerSkipped(config) == config

\* variant of line 148 that deletes every key of the trainer section
DelLoggerClearsTrainer(config) ==
    [config EXCEPT !.trainer = [k \in {} |-> PyNone]]

\* variant of line 148 that empties the list instead of deleting the key
DelLoggerEmpties(config) ==
    [config EXCEPT !.trainer["logger"] = PyList(<<>>)]

\* line 148: del config.trainer.logger
DelLogger(config) ==
    [config EXCEPT !.trainer =
        [k \in DOMAIN config.trainer \ {"logger"} |-> config.trainer[k]]]

\* the whole call: outcome, returned value, configuration afterwards, effects
GetExperimentLoggerCall(config) ==
    IF LoggerDisabled(config)
    THEN [outcome |-> "False", result |-> <<>>, config |-> config,
          constructed |-> <<>>, mkdirs |-> <<>>, msg |-> NoMsg]
    ELSE IF config.trainer["logger"].tag \notin {"str", "list"}
    THEN \* line 93: the value cannot be iterated
         [outcome |-> "TypeError", result |-> <<>>, config |-> config,
          constructed |-> <<>>, mkdirs |-> <<>>, msg |-> NoMsg]
    ELSE LET normalized == NormalizeLogger(config)
             st == LoggerLoop(normalized, 1, LoopStart)
         IN  IF st.raised
             THEN [outcome |-> "UnknownLoggerError", result |-> <<>>,
                   config |-> normalized,
                   constructed |-> st.constructed, mkdirs |-> st.mkdirs,
                   msg |-> st.msg]
             ELSE [outcome |-> "list", result |-> st.logger_list,
                   config |-> DelLogger(normalized),
                   constructed |-> st.constructed, mkdirs |-> st.mkdirs,
                   msg |-> NoMsg]

Range(s) == {s[i] : i \in 1..Len(s)}

NoCall == [cfg |-> 0]

\* get_experiment_logger(config) on the configuration object c
GetExperimentLogger(c) ==
    LET r == GetExperimentLoggerCall(configs[c]) IN
    /\ configs' = [configs EXCEPT ![c] = r.config]
    /\ dirs' = dirs \cup Range(r.mkdirs)
    /\ last' = [cfg |-> c, before |-> configs[c], prevBefore |-> prev[c],
                outcome |-> r.outcome, result |-> r.result,
                constructed |-> r.constructed, mkdirs |-> r.mkdirs,
                msg |-> r.msg, dirsBefore |-> dirs]
    /\ prev' = [prev EXCEPT ![c] = r.outcome]
    /\ UNCHANGED <<targs, tpc, tresult>>

NoArgs == [none |-> TRUE]

Init ==
    /\ configs \in [ConfigIds -> ConfigSpace]
    /\ prev = [c \in ConfigIds |-> "fresh"]
    /\ last = NoCall
    /\ dirs = {}
    /\ targs = NoArgs
    /\ tpc = "idle"
    /\ tresult = NoArgs

Next == \E c \in ConfigIds : GetExperimentLogger(c)

Spec == Init /\ [][Next]_vars

\* ================================================= data/utils/transforms.py
\* class InputNormalizationMethod, with one value outside the enumeration
NormalizationEnum == {"none", "imagenet", "clip"}
NormalizationValues == NormalizationEnum \cup {"zscore"}

\* int | tuple[int, int] | None arguments
SizeNone == [tag |-> "None"]
SizeInt(n) == [tag |-> "int", n |-> n]
SizeTuple(h, w) == [tag |-> "tuple", h |-> h, w |-> w]

SizeValues ==
    {SizeNone}
        \cup {SizeInt(n) : n \in 1..MaxSize}
        \cup {SizeTuple(h, w) : h \in 1..MaxSize, w \in 1..MaxSize}

\* anomalib.data.utils.image.get_image_height_and_width
get_image_height_and_width(size) ==
    IF size.tag = "int" THEN <<size.n, size.n>> ELSE <<size.h, size.w>>

\* the albumentations steps the code constructs
Resize(h, w) ==
    [op |-> "Resize", height |-> h, width |-> w, always_apply |-> TRUE]
CenterCrop(h, w) ==
    [op |-> "CenterCrop", height |-> h, width |-> w, always_apply |-> TRUE]
\* mean and std in units of 1e-8
Normalize(mean, std) == [op |-> "Normalize", mean |-> mean, std |-> std]
ToFloat(max_value) == [op |-> "ToFloat", max_value |-> max_value]
ToTensorV2 == [op |-> "ToTensorV2"]
\* getattr(A, key)(**value)
FromConfig(key) == [op |-> key, kwargs |-> "value"]

IMAGENET_MEAN == <<48500000, 45600000, 40600000>>
IMAGENET_STD == <<22900000, 22400000, 22500000>>
CLIP_MEAN == <<48145466, 45782750, 40821073>>
CLIP_STD == <<26862954, 26130258, 27577711>>

\* Compose objects carry an identity; 0 is an object made by this call
NewObject == 0
AnomalibTargets == {"image", "depth_image"}
Compose(id, transforms, targets) ==
    [id |-> id, transforms |-> transforms, additional_targets |-> targets]

\* pipelines the caller built beforehand (docstring lines 77-80)
PrebuiltComposes ==
    {Compose(1, <<Resize(MaxSize, MaxSize), ToTensorV2>>, {}),
     Compose(2, <<ToFloat(255)>>, {})}

\* names that hasattr(A, key) finds, and keys a structured config may carry
AlbumentationsNames == {"Resize", "CenterCrop", "Normalize", "ToFloat", "HorizontalFlip"}
TransformKeys == {"Resize", "HorizontalFlip", "NotATransform"}

\* yaml files on disk that A.load can read (docstring lines 89-91)
YamlFiles == [p \in {"transforms.yaml"} |-> <<Resize(MaxSize, MaxSize), ToTensorV2>>]
YamlPaths == {"transforms.yaml", "missing.yaml"}

\* values of the config argument
CfgNone == [tag |-> "None"]
CfgDict(keys) == [tag |-> "DictConfig", keys |-> keys]
CfgStr(path) == [tag |-> "str", path |-> path]
CfgCompose(obj) == [tag |-> "Compose", obj |-> obj]
CfgOther == [tag |-> "int", n |-> 7]

CfgValues ==
    {CfgNone, CfgOther}
        \cup {CfgDict(k) : k \in {s \in SeqsUpTo(TransformKeys, MaxKeys) : IsInjective(s)}}
        \cup {CfgStr(p) : p \in YamlPaths}
        \cup {CfgCompose(o) : o \in PrebuiltComposes}

NoValue == [none |-> TRUE]
Return(obj) == [outcome |-> "Compose", why |-> "", value |-> obj]
Raise(kind, why) == [outcome |-> kind, why |-> why, value |-> NoValue]

\* lines 108-115: for key, value in config.items(), from position i on
RECURSIVE ConfigItems(_, _, _)
ConfigItems(keys, i, transforms_list) ==
    IF i > Len(keys) THEN [raised |-> FALSE, transforms_list |-> transforms_list]
    ELSE IF keys[i] \in AlbumentationsNames
         THEN ConfigItems(keys, i + 1, Append(transforms_list, FromConfig(keys[i])))
         ELSE [raised |-> TRUE, transforms_list |-> transforms_list]

\* lines 99-118: config is a DictConfig
DictTransforms(config, image_size) ==
    LET hw == get_image_height_and_width(image_size)
        start == IF "Resize" \notin Range(config.keys) /\ image_size # SizeNone
                 THEN <<Resize(hw[1], hw[2])>>
                 ELSE <<>>
        items == ConfigItems(config.keys, 1, start)
    IN  IF items.raised
        THEN Raise("ValueError", "not part of albumentations")
        ELSE Return(Compose(NewObject, Append(items.transforms_list, ToTensorV2),
                            AnomalibTargets))

\* lines 121-123: A.load(filepath_or_buffer=config, data_format="yaml")
LoadTransforms(config) ==
    IF config.path \in DOMAIN YamlFiles
    THEN Return(Compose(NewObject, YamlFiles[config.path], {}))
    ELSE Raise("OSError", "no such file")

\* variant of lines 124-126 that wraps the steps in a new Compose
PassThroughRebuilt(config) ==
    Return(Compose(NewObject, config.obj.transforms, AnomalibTargets))

\* lines 124-126: transforms = config
PassThrough(config) == Return(config.obj)

\* variant of line 147 with >= for >
CropTooLargeOrEqual(crop, resize) == crop[1] >= resize[1] \/ crop[2] >= resize[2]

\* line 147: crop_height > resize_height or crop_width > resize_width
CropTooLarge(crop, resize) == crop[1] > resize[1] \/ crop[2] > resize[2]

\* lines 153-163: the normalization step, or none for a value outside the enum
NormalizationStep(normalization) ==
    IF normalization = "imagenet"
    THEN <<Normalize(IMAGENET_MEAN, IMAGENET_STD)>>
    ELSE IF normalization = "clip"
    THEN <<Normalize(CLIP_MEAN, CLIP_STD)>>
    ELSE IF normalization = "none"
    THEN <<ToFloat(255)>>
    ELSE <<>>

\* variant of lines 145-150 that puts the crop before the resize
WithCenterCropFirst(transforms_list, center_crop) ==
    IF center_crop # SizeNone
    THEN LET crop == get_image_height_and_width(center_crop)
         IN  <<CenterCrop(crop[1], crop[2])>> \o transforms_list
    ELSE transforms_list

\* lines 145-150: the transforms list after the center-crop step
WithCenterCrop(transforms_list, center_crop) ==
    IF center_crop # SizeNone
    THEN LET crop == get_image_height_and_width(center_crop)
         IN  Append(transforms_list, CenterCrop(crop[1], crop[2]))
    ELSE transforms_list

\* lines 166-167
WithToTensor(transforms_list, to_tensor) ==
    IF to_tensor THEN Append(transforms_list, ToTensorV2) ELSE transforms_list

\* lines 130-169: config is None
DefaultTransforms(image_size, center_crop, normalization, to_tensor) ==
    IF image_size = SizeNone
    THEN Raise("ValueError", "missing image_size")
    ELSE LET resize == get_image_height_and_width(image_size)
             resized == <<Resize(resize[1], resize[2])>>
         IN  IF /\ center_crop # SizeNone
                /\ CropTooLarge(get_image_height_and_width(center_crop), resize)
             THEN Raise("ValueError", "crop size")
             ELSE IF NormalizationStep(normalization) = <<>>
             THEN Raise("ValueError", "unknown normalization")
             ELSE Return(Compose(NewObject,
                     WithToTensor(WithCenterCrop(resized, center_crop)
                                      \o NormalizationStep(normalization),
                                  to_tensor),
                     AnomalibTargets))

\* lines 98-171: the whole call
GetTransformsCall(config, image_size, center_crop, normalization, to_tensor) ==
    IF config # CfgNone
    THEN IF config.tag = "DictConfig" THEN DictTransforms(config, image_size)
         ELSE IF config.tag = "str" THEN LoadTransforms(config)
         ELSE IF config.tag = "Compose" THEN PassThrough(config)
         ELSE Raise("TypeError", "config could be either str or A.Compose")
    ELSE DefaultTransforms(image_size, center_crop, normalization, to_tensor)

ArgSpace ==
    [config : CfgValues, image_size : SizeValues, center_crop : SizeValues,
     normalization : NormalizationValues, to_tensor : BOOLEAN]

\* get_transforms(config, image_size, center_crop, normalization, to_tensor)
GetTransforms ==
    /\ tpc = "ready"
    /\ tresult' = GetTransformsCall(targs.config, targs.image_size,
                                    targs.center_crop, targs.normalization,
                                    targs.to_tensor)
    /\ tpc' = "done"
    /\ UNCHANGED <<configs, prev, last, dirs, targs>>

InitTransforms ==
    /\ configs = [c \in ConfigIds |-> MakeConfig(TrainerWithout, FALSE)]
    /\ prev = [c \in ConfigIds |-> "fresh"]
    /\ last = NoCall
    /\ dirs = {}
    /\ targs \in ArgSpace
    /\ tpc = "ready"
    /\ tresult = NoArgs

NextTransforms == GetTransforms

SpecTransforms == InitTransforms /\ [][NextTransforms]_vars

\* =================================================================== claims
\* ---- vocabulary of the claims about get_experiment_logger
SupportedNames == {"tensorboard", "wandb", "comet", "csv"}

AdapterKindOf(name) ==
    CASE name = "tensorboard" -> "AnomalibTensorBoardLogger"
      [] name = "wandb" -> "AnomalibWandbLogger"
      [] name = "comet" -> "AnomalibCometLogger"
      [] name = "csv" -> "CSVLogger"
      [] OTHER -> "no adapter"

Called == last.cfg # 0

\* trainer.logger is a string or a sequence of strings
NamesLoggers(config) ==
    /\ "logger" \in DOMAIN config.trainer
    /\ config.trainer["logger"].tag \in {"str", "list"}

\* the names it gives, a single string s read as <<s>>
NamesOf(config) ==
    IF config.trainer["logger"].tag = "str"
    THEN <<config.trainer["logger"].s>>
    ELSE config.trainer["logger"].l

AllSupported(names) == \A i \in 1..Len(names) : names[i] \in SupportedNames

\* the logger field is absent, None or False
Disabled(config) ==
    \/ "logger" \notin DOMAIN config.trainer
    \/ config.trainer["logger"].tag = "None"
    \/ /\ config.trainer["logger"].tag = "bool"
       /\ ~config.trainer["logger"].b

WithoutLoggerKey(config) ==
    [config EXCEPT !.trainer =
        [k \in DOMAIN config.trainer \ {"logger"} |-> config.trainer[k]]]

\* position of the first unsupported name (Len + 1 when there is none)
FirstUnsupported(names) ==
    IF AllSupported(names) THEN Len(names) + 1
    ELSE CHOOSE i \in 1..Len(names) :
            /\ names[i] \notin SupportedNames
            /\ \A j \in 1..(i - 1) : names[j] \in SupportedNames

C2_DisabledReturnsFalse ==
    (Called /\ Disabled(last.before))
        => /\ last.outcome = "False"
           /\ last.constructed = <<>>
           /\ last.mkdirs = <<>>
           /\ dirs = last.dirsBefore

C2_Witness ==
    /\ Called
    /\ "logger" \in DOMAIN last.before.trainer
    /\ last.before.trainer["logger"] = PyFalse
    /\ last.outcome = "False"

\* C3: a call on a configuration whose trainer.logger is a string or a
\* sequence naming only supported backends returns a list, and after every
\* call that returned a list the key logger is absent from config.trainer.
C3_LoggerKeyDeleted ==
    /\ (Called /\ NamesLoggers(last.before) /\ AllSupported(NamesOf(last.before)))
          => last.outcome = "list"
    /\ (Called /\ last.outcome = "list")
          => "logger" \notin DOMAIN configs[last.cfg].trainer

C3_Witness ==
    /\ Called
    /\ last.outcome = "list"
    /\ Len(last.result) = 2
    /\ "logger" \in DOMAIN last.before.trainer
    /\ "logger" \notin DOMAIN configs[last.cfg].trainer

\* C4: for a sequence of one or more supported names the returned list has the
\* length of the sequence and its i-th element is the adapter kind of the
\* i-th name; a single string s gives the result of the sequence [s].
C4_OrderedAdapters ==
    (Called /\ NamesLoggers(last.before) /\ AllSupported(NamesOf(last.before))
            /\ Len(NamesOf(last.before)) >= 1)
        => /\ last.outcome = "list"
           /\ Len(last.result) = Len(NamesOf(last.before))
           /\ \A i \in 1..Len(last.result) :
                 last.result[i].kind = AdapterKindOf(NamesOf(last.before)[i])
           /\ last.before.trainer["logger"].tag = "str"
                 => last.result =
                       GetExperimentLoggerCall(
                           [last.before EXCEPT !.trainer["logger"] =
                               PyList(NamesOf(last.before))]).result

C4_Witness ==
    /\ Called
    /\ NamesLoggers(last.before)
    /\ NamesOf(last.before) = <<"comet", "tensorboard">>
    /\ last.outcome = "list"
    /\ last.result[1].kind = "AnomalibCometLogger"
    /\ last.result[2].kind = "AnomalibTensorBoardLogger"

\* C5 as stated: after any call the configuration equals the configuration
\* before the call, or equals it with only trainer.logger removed.
C5_OnlyDeletion ==
    Called => \/ configs[last.cfg] = last.before
              \/ configs[last.cfg] = WithoutLoggerKey(last.before)

\* C5 amended: after a call that returned False the configuration is the one
\* before; after a call that returned a list it is the one before with only
\* trainer.logger removed; after a call that raised UnknownLoggerError it is
\* the one before, except that a trainer.logger given as a single string s is
\* left rewritten to the one-element list [s]; no other field ever changes.
C5_DeletionOrListRewrite ==
    Called =>
        LET after == configs[last.cfg]
            before == last.before
        IN  CASE last.outcome = "False" -> after = before
              [] last.outcome = "list" -> after = WithoutLoggerKey(before)
              [] last.outcome = "UnknownLoggerError" ->
                    IF before.trainer["logger"].tag = "str"
                    THEN after = [before EXCEPT !.trainer["logger"] =
                                     PyList(<<before.trainer["logger"].s>>)]
                    ELSE after = before
              [] OTHER -> after = before

C5_Witness ==
    /\ Called
    /\ last.outcome = "UnknownLoggerError"
    /\ last.before.trainer["logger"] = PyStr("mlflow")
    /\ configs[last.cfg].trainer["logger"] = PyList(<<"mlflow">>)

\* C6 as stated: a call that ends with UnknownLoggerError has constructed no
\* adapter and created no log directory.
C6_NoPartialEffects ==
    (Called /\ last.outcome = "UnknownLoggerError")
        => /\ last.constructed = <<>>
           /\ last.mkdirs = <<>>
           /\ dirs = last.dirsBefore

\* C6 amended: a call that ends with UnknownLoggerError has constructed
\* exactly the adapters of the supported names that precede the first
\* unsupported name, in order, and has created <project.path>/logs once for
\* each wandb or comet among them; it has constructed nothing for the
\* unsupported name or for any name after it.
C6_EffectsOfPrecedingNames ==
    (Called /\ last.outcome = "UnknownLoggerError")
        => LET names == NamesOf(last.before)
               k == FirstUnsupported(names)
               makers == {i \in 1..(k - 1) : names[i] \in {"wandb", "comet"}}
           IN  /\ k <= Len(names)
               /\ Len(last.constructed) = k - 1
               /\ \A i \in 1..(k - 1) :
                     last.constructed[i] = AdapterKindOf(names[i])
               /\ Len(last.mkdirs) = Cardinality(makers)
               /\ \A j \in 1..Len(last.mkdirs) :
                     last.mkdirs[j] = Append(last.before.project.path, "logs")
               /\ dirs = last.dirsBefore \cup Range(last.mkdirs)

C6_Witness ==
    /\ Called
    /\ last.outcome = "UnknownLoggerError"
    /\ NamesOf(last.before) = <<"wandb", "mlflow">>
    /\ last.constructed = <<"AnomalibWandbLogger">>
    /\ last.dirsBefore = {}
    /\ dirs = {<<"results", "logs">>}

\* C7: on a configuration whose trainer.logger names one or more supported
\* backends the first call returns a non-empty list; every later call on the
\* same configuration object returns False and constructs nothing; a call on
\* one configuration object leaves every other configuration object as it was.
C7_FirstCallList ==
    (Called /\ last.prevBefore = "fresh" /\ NamesLoggers(last.before)
            /\ AllSupported(NamesOf(last.before))
            /\ Len(NamesOf(last.before)) >= 1)
        => (last.outcome = "list" /\ Len(last.result) >= 1)

C7_LaterCallsFalse ==
    (Called /\ last.prevBefore \in {"list", "False"})
        => /\ last.outcome = "False"
           /\ last.constructed = <<>>
           /\ last.mkdirs = <<>>
           /\ configs[last.cfg] = last.before

C7_OthersUntouched ==
    \E c \in ConfigIds :
        /\ last'.cfg = c
        /\ \A d \in ConfigIds \ {c} :
              configs'[d] = configs[d] /\ prev'[d] = prev[d]

C7_NotIdempotent ==
    /\ [](C7_FirstCallList /\ C7_LaterCallsFalse)
    /\ [][C7_OthersUntouched]_vars

C7_Witness ==
    /\ Called
    /\ last.prevBefore = "list"
    /\ last.outcome = "False"
    /\ \E d \in ConfigIds \ {last.cfg} : prev[d] = "list"

\* ---- vocabulary of the claims about get_transforms
Returned == tpc = "done"

HeightOf(size) == IF size.tag = "int" THEN size.n ELSE size.h
WidthOf(size) == IF size.tag = "int" THEN size.n ELSE size.w

CropOversize(crop, size) ==
    /\ crop.tag # "None"
    /\ size.tag # "None"
    /\ (HeightOf(crop) > HeightOf(size) \/ WidthOf(crop) > WidthOf(size))

ExpectedNormalization(normalization) ==
    CASE normalization = "imagenet" ->
            [op |-> "Normalize", mean |-> IMAGENET_MEAN, std |-> IMAGENET_STD]
      [] normalization = "clip" ->
            [op |-> "Normalize", mean |-> CLIP_MEAN, std |-> CLIP_STD]
      [] normalization = "none" -> [op |-> "ToFloat", max_value |-> 255]

ExpectedSteps(a) ==
    <<[op |-> "Resize", height |-> HeightOf(a.image_size),
       width |-> WidthOf(a.image_size), always_apply |-> TRUE]>>
    \o (IF a.center_crop.tag # "None"
        THEN <<[op |-> "CenterCrop", height |-> HeightOf(a.center_crop),
                width |-> WidthOf(a.center_crop), always_apply |-> TRUE]>>
        ELSE <<>>)
    \o <<ExpectedNormalization(a.normalization)>>
    \o (IF a.to_tensor THEN <<[op |-> "ToTensorV2"]>> ELSE <<>>)

\* C8: with config None and an image_size, the pipeline get_transforms returns
\* is Resize(height, width of image_size), then CenterCrop iff center_crop is
\* given, then the one normalization step of the enumeration value, then
\* ToTensorV2 iff to_tensor, and nothing else.
C8_DefaultPipelineOrder ==
    /\ (Returned /\ targs.config.tag = "None" /\ targs.image_size.tag # "None"
                 /\ ~CropOversize(targs.center_crop, targs.image_size)
                 /\ targs.normalization \in NormalizationEnum)
          => tresult.outcome = "Compose"
    /\ (Returned /\ targs.config.tag = "None" /\ tresult.outcome = "Compose")
        => /\ targs.image_size.tag # "None"
           /\ targs.normalization \in NormalizationEnum
           /\ tresult.value.transforms = ExpectedSteps(targs)
           /\ Len(tresult.value.transforms) \in 2..4

C8_Witness ==
    /\ Returned
    /\ targs.config.tag = "None"
    /\ targs.image_size = SizeTuple(2, 1)
    /\ targs.center_crop = SizeInt(1)
    /\ targs.normalization = "clip"
    /\ targs.to_tensor
    /\ tresult.outcome = "Compose"
    /\ Len(tresult.value.transforms) = 4

\* C9: with config None and a normalization of the enumeration, the call
\* fails with a value error exactly when image_size is None or the crop is
\* higher or wider than the resize; otherwise it returns a pipeline; with
\* image_size None the error is the missing-size one whatever the crop.
C9_ValueErrorExactly ==
    (Returned /\ targs.config.tag = "None"
              /\ targs.normalization \in NormalizationEnum)
        => /\ tresult.outcome = "ValueError"
                <=> \/ targs.image_size.tag = "None"
                    \/ CropOversize(targs.center_crop, targs.image_size)
           /\ tresult.outcome \in {"ValueError", "Compose"}
           /\ targs.image_size.tag = "None"
                => tresult.why = "missing image_size"

C9_Witness ==
    /\ Returned
    /\ targs.config.tag = "None"
    /\ targs.normalization \in NormalizationEnum
    /\ targs.image_size = SizeTuple(1, 2)
    /\ targs.center_crop = SizeTuple(1, 2)
    /\ tresult.outcome = "Compose"

====
